---- MODULE Spec2Model ----
(***************************************************************************)
(* The decode / render / collect pipeline of AudioPlayer                   *)
(* (src/Player/AudioPlayer.cpp): the frame counters, the active decoder    *)
(* table, the decoder queue, the file reader (decode worker) threads, the  *)
(* realtime Render / DidRender callbacks, the collector thread and the     *)
(* controller operations.                                                  *)
(*                                                                         *)
(* Decoders are numbered 1..NumDecoders in the order the client hands them *)
(* to the player; 0 is the NULL pointer.  A DecoderStateData exists at     *)
(* most once per decoder, so a decoder state is named by its decoder.      *)
(***************************************************************************)
EXTENDS Integers, Sequences, FiniteSets, TLC

\* ---------------------------------------------------------------- constants
RING_BUFFER_SIZE_FRAMES == 16384
RING_BUFFER_WRITE_CHUNK_SIZE_FRAMES == 2048

\* ------------------------------------------------------------------- bounds
\* decoders the client creates during one run
NumDecoders == 3
\* slots of mActiveDecoders (kActiveDecoderArraySize of AudioPlayer.h)
ActiveDecoderArraySize == 2

Decoders == 1..NumDecoders
Slots == 1..ActiveDecoderArraySize
NULL == 0

VARIABLES
    mFramesDecoded,                 \* SInt64, frames stored by the workers
    mFramesRendered,                \* SInt64, frames fetched by Render
    mNextDecoderStartingTimeStamp,  \* SInt64
    mFramesRenderedLastPass,        \* UInt32, written by Render only
    mDecoderQueue,                  \* std::deque<AudioDecoder *>
    mActiveDecoders,                \* DecoderStateData * [kActiveDecoderArraySize]
    mKeepCollecting,                \* collector's loop flag
    isRunning,                      \* AUGraphIsRunning
    decoderState,                   \* the DecoderStateData of each decoder
    decoder,                        \* the AudioDecoder objects
    worker,                         \* file reader thread of each decoder
    pendingWorkers,                 \* threads created that have not popped yet
    rt,                             \* the realtime thread: Render, then DidRender
    mRingBuffer,                    \* CARingBuffer: valid window and its writers
    graphFormat,                    \* stream format of the graph's output unit
    client,                         \* operations the client still performs
    fault,                          \* the process died of undefined behaviour
    hist                            \* observations: callbacks, output, hazards

vars == <<mFramesDecoded, mFramesRendered, mNextDecoderStartingTimeStamp,
          mFramesRenderedLastPass, mDecoderQueue, mActiveDecoders,
          mKeepCollecting, isRunning, decoderState, decoder, worker,
          pendingWorkers, rt, mRingBuffer, graphFormat, client, fault, hist>>

\* ------------------------------------------------------------------ helpers
Min(a, b) == IF a <= b THEN a ELSE b
Max(a, b) == IF a >= b THEN a ELSE b

\* static_cast<UInt32>(x) of a 64-bit difference.  Every value of the model
\* stays below 2^31 in magnitude, so the cast of a negative x is x + 2^32,
\* which is larger than any frame count compared with it; the two uses of
\* the cast in the source are a comparison and a minimum.
UInt32AtLeast(x, c) == x < 0 \/ x >= c
UInt32Min(x, n) == IF x < 0 THEN n ELSE Min(x, n)

\* the elements of a sequence
Elements(q) == {q[k] : k \in 1..Len(q)}

RECURSIVE SumOver(_, _)
SumOver(S, f) == IF S = {} THEN 0
                 ELSE LET x == CHOOSE y \in S : TRUE
                      IN f[x] + SumOver(S \ {x}, f)

\* ------------------------------------------------------------- CARingBuffer
\* The ring keeps a window [start, end) of absolute frame indices.  A segment
\* [from, to) written by the worker of decoder dec holds that decoder's frames
\* off, off+1, ...; dec = NULL marks a zero-filled gap.
Seg(from, to, d, off) == [from |-> from, to |-> to, dec |-> d, off |-> off]

EmptyRing == [start |-> 0, end |-> 0, segs |-> <<>>]

\* the part of the segments at or above index s
RECURSIVE SegsFrom(_, _)
SegsFrom(segs, s) ==
    IF segs = <<>> THEN <<>>
    ELSE LET h == Head(segs)
         IN IF h.to <= s THEN SegsFrom(Tail(segs), s)
            ELSE IF h.from >= s THEN segs
            ELSE <<Seg(s, h.to, h.dec,
                       IF h.dec = NULL THEN 0 ELSE h.off + (s - h.from))>>
                 \o Tail(segs)

\* append a segment, joining it to the last one when it continues it
AppendSeg(segs, g) ==
    IF g.from >= g.to THEN segs
    ELSE IF segs # <<>>
            /\ segs[Len(segs)].dec = g.dec
            /\ segs[Len(segs)].to = g.from
            /\ (g.dec = NULL
                \/ segs[Len(segs)].off + (g.from - segs[Len(segs)].from) = g.off)
         THEN [segs EXCEPT ![Len(segs)].to = g.to]
         ELSE Append(segs, g)

\* CARingBuffer::Store(bufferList, n, at) by the worker of decoder d, whose
\* frame off lands at index at.  A store below the write head discards the
\* window; a store that would span more than the capacity advances its start.
Store(rb, d, off, n, at) ==
    LET back   == at < rb.end
        start0 == IF back THEN at ELSE rb.start
        end0   == IF back THEN at ELSE rb.end
        segs0  == IF back THEN <<>> ELSE rb.segs
        start1 == IF (at + n) - start0 > RING_BUFFER_SIZE_FRAMES
                  THEN (at + n) - RING_BUFFER_SIZE_FRAMES ELSE start0
        end1   == Max(start1, end0)
        segs1  == SegsFrom(segs0, start1)
        gap    == Seg(Max(end1, start1), at, NULL, 0)
    IN [start |-> start1,
        end   |-> at + n,
        segs  |-> AppendSeg(AppendSeg(segs1, gap), Seg(at, at + n, d, off))]

StoreFails(n) == n > RING_BUFFER_SIZE_FRAMES

\* One piece of output: len frames of decoder dec from its frame off on;
\* dec = NULL is silence (its length is not kept).
Piece(d, off, len) == [dec |-> d, off |-> off, len |-> len]
Silence == Piece(NULL, 0, 0)

\* the pieces the segments give for [from, to), from inside the window
RECURSIVE SegPieces(_, _, _)
SegPieces(segs, from, to) ==
    IF from >= to THEN <<>>
    ELSE IF segs = <<>> THEN <<Silence>>
    ELSE LET h == Head(segs)
         IN IF h.to <= from THEN SegPieces(Tail(segs), from, to)
            ELSE IF h.from > from
                 THEN <<Silence>> \o SegPieces(segs, Min(h.from, to), to)
            ELSE LET upto == Min(h.to, to)
                 IN <<IF h.dec = NULL THEN Silence
                      ELSE Piece(h.dec, h.off + (from - h.from), upto - from)>>
                    \o SegPieces(Tail(segs), upto, to)

\* CARingBuffer::Fetch(ioData, n, from, false): the frames of [from, from+n),
\* zeros outside the window.
Fetch(rb, n, from) ==
    LET lo == Max(from, rb.start)
        hi == Min(from + n, rb.end)
    IN (IF from < lo THEN <<Silence>> ELSE <<>>)
       \o SegPieces(rb.segs, lo, hi)
       \o (IF Max(hi, lo) < from + n THEN <<Silence>> ELSE <<>>)

\* --------------------------------------------------------------- the state
\* DecoderStateData(decoder): the record a worker creates for its decoder.
\* life is "none" before the worker created it, "freed" after delete.
NoDecoderState ==
    [life |-> "none", mTimeStamp |-> 0, mTotalFrames |-> 0, mFramesRendered |-> 0,
     mFrameToSeek |-> -1, mKeepDecoding |-> FALSE, mReadyForCollection |-> FALSE]

NewDecoderState(d) ==
    [life |-> "live", mTimeStamp |-> 0, mTotalFrames |-> decoder[d].total,
     mFramesRendered |-> 0, mFrameToSeek |-> -1, mKeepDecoding |-> TRUE,
     mReadyForCollection |-> FALSE]

\* stream formats (sample rate and channel count) of decoders and of the graph
Formats == {"44100/2", "48000/2"}

\* AudioDecoder: len frames can be read, total is what GetTotalFrames declares,
\* format is what GetFormat returns, failure is the negative number its
\* SeekToFrame returns when it fails
NewDecoder(len, total, seekable) ==
    [cur |-> 0, len |-> len, total |-> total, seekable |-> seekable,
     format |-> "44100/2", failure |-> -1]

\* AudioDecoder::ReadAudio(bufferList, max): the frames produced
ReadAudio(d, max) == Min(max, decoder[d].len - decoder[d].cur)

\* AudioDecoder::SeekToFrame(frame): the frame landed on, or a negative number
SeekResults(d, frame) ==
    IF 0 <= frame /\ frame <= decoder[d].len THEN {frame, decoder[d].failure}
    ELSE {decoder[d].failure}

NoWorker == [pc |-> "none", before |-> 0, newFrame |-> 0]
IdleRender ==
    [pc |-> "idle", n |-> 0, i |-> 1, d |-> 0, give |-> 0, left |-> 0,
     req |-> 0, from |-> 0, zero |-> 0, signal |-> FALSE]

\* The output of Render is observed as: the frames delivered of each decoder,
\* the end of the last piece delivered (lastOut), what was delivered right
\* before each decoder's frame 0 (lead), and whether a decoder's frames ever
\* came out of sequence (jump).  queued are the decoders Enqueue put at the
\* back of the queue, startedWith is mFramesDecoded when the graph was last
\* started, session counts the resets of the counters, sessionOf is the
\* session a worker started in and eosSum the frames of the decoders that
\* reached their end in the current session; stopped holds from a Stop() that
\* went past its IsPlaying test until the next Play; returned is what Play or
\* Enqueue returned for the decoder handed to it, degraded are the decoders
\* Enqueue passed on to Play; seek is the argument and the result of the last
\* call of SeekToFrame with the function that made the call and the current
\* decoder's total frames then, request[d] the last frame SeekToFrame wrote to d's
\* state and returned true for, until the worker hands it to the decoder;
\* storeErrors counts the chunks CARingBuffer::Store returned an error for;
\* realtime are the synchronisation calls the realtime thread has made on the
\* player's semaphores, mutex and atomic variables; deleted are the decoders
\* that were deleted while in the queue.
Unset == [dec |-> -1, off |-> 0]
EndOf(p) == IF p.dec = NULL THEN [dec |-> NULL, off |-> 0]
            ELSE [dec |-> p.dec, off |-> p.off + p.len]

Deliver1(h, p) ==
    IF p.dec = NULL THEN [h EXCEPT !.lastOut = EndOf(p)]
    ELSE IF p.len = 0 THEN h
    ELSE [h EXCEPT
            !.lead[p.dec] = IF p.off = 0 /\ @ = Unset THEN h.lastOut ELSE @,
            !.jump = @ \/ p.off # h.delivered[p.dec],
            !.delivered[p.dec] = @ + p.len,
            !.lastOut = EndOf(p)]

RECURSIVE Deliver(_, _)
Deliver(h, ps) == IF ps = <<>> THEN h ELSE Deliver(Deliver1(h, Head(ps)), Tail(ps))

\* a callback counter that saturates
CallbackCap == 2
Bump(c) == IF c < CallbackCap THEN c + 1 ELSE c

NoHist ==
    [renderingStarted  |-> [d \in Decoders |-> 0],
     renderingFinished |-> [d \in Decoders |-> 0],
     decodingStarted   |-> [d \in Decoders |-> 0],
     decodingFinished  |-> [d \in Decoders |-> 0],
     delivered         |-> [d \in Decoders |-> 0],
     lead              |-> [d \in Decoders |-> Unset],
     lastOut           |-> Unset,
     jump              |-> FALSE,
     queued            |-> {},
     startedWith       |-> -1,
     session           |-> 0,
     sessionOf         |-> [d \in Decoders |-> 0],
     eosSum            |-> 0,
     stopped           |-> FALSE,
     returned          |-> [d \in Decoders |-> "none"],
     degraded          |-> {},
     seek              |-> [result |-> "none", arg |-> -1, via |-> "none", total |-> -1],
     request           |-> [d \in Decoders |-> -1],
     storeErrors       |-> 0,
     useAfterFree      |-> FALSE,
     emptyPop          |-> FALSE,
     realtime          |-> {},
     deleted           |-> {}]

\* the state the constructor leaves (lines 181-270); mFramesRenderedLastPass is
\* not initialised by it, so its first value is whatever the memory held; the
\* graph's format is the one the output device gave it
InitPlayer(lastPass) ==
    /\ mFramesDecoded = 0
    /\ mFramesRendered = 0
    /\ mNextDecoderStartingTimeStamp = 0
    /\ mFramesRenderedLastPass = lastPass
    /\ mDecoderQueue = <<>>
    /\ mActiveDecoders = [i \in Slots |-> NULL]
    /\ mKeepCollecting = TRUE
    /\ isRunning = FALSE
    /\ decoderState = [d \in Decoders |-> NoDecoderState]
    /\ worker = [d \in Decoders |-> NoWorker]
    /\ pendingWorkers = 0
    /\ rt = IdleRender
    /\ mRingBuffer = EmptyRing
    /\ graphFormat \in Formats
    /\ fault = FALSE
    /\ hist = NoHist

\* ------------------------------------------------------- shared procedures
\* a scan that returns the first state that is not ready for collection
RECURSIVE ScanFirstLive(_, _, _, _)
ScanFirstLive(table, ds, i, result) ==
    IF i > ActiveDecoderArraySize THEN result
    ELSE LET s == table[i]
         IN IF result = NULL /\ s # NULL /\ ~ds[s].mReadyForCollection
            THEN ScanFirstLive(table, ds, i + 1, s)
            ELSE ScanFirstLive(table, ds, i + 1, result)

\* AudioPlayer::GetCurrentDecoderState: the slot scan keeps the first state
\* met unless a later one has a strictly smaller time stamp
RECURSIVE ScanCurrent(_, _, _, _)
ScanCurrent(table, ds, i, result) ==
    IF i > ActiveDecoderArraySize THEN result
    ELSE LET s == table[i]
         IN IF s = NULL \/ ds[s].mReadyForCollection
            THEN ScanCurrent(table, ds, i + 1, result)
            ELSE IF result = NULL \/ ds[s].mTimeStamp < ds[result].mTimeStamp
                 THEN ScanCurrent(table, ds, i + 1, s)
                 ELSE ScanCurrent(table, ds, i + 1, result)

GetCurrentDecoderState == ScanCurrent(mActiveDecoders, decoderState, 1, NULL)

\* what AudioPlayer::StopActiveDecoders leaves in the decoder states
StopActiveDecoders(ds) ==
    [d \in Decoders |->
        IF \E i \in Slots : mActiveDecoders[i] = d
        THEN [ds[d] EXCEPT !.mKeepDecoding = FALSE, !.mReadyForCollection = TRUE]
        ELSE ds[d]]

\* the first empty slot of the table, or 0
FirstEmptySlot ==
    IF \E i \in Slots : mActiveDecoders[i] = NULL
    THEN CHOOSE i \in Slots : /\ mActiveDecoders[i] = NULL
                              /\ \A j \in Slots : j < i => mActiveDecoders[j] # NULL
    ELSE 0

\* ------------------------------------------- AudioPlayer::FileReaderThreadEntry
Touched(h, d) ==
    IF decoderState[d].life = "freed" THEN [h EXCEPT !.useAfterFree = TRUE] ELSE h

Running(d) == worker[d].pc \notin {"none", "done"}

\* lines 1613-1657: pop the head of the queue, create the decoder state, stamp
\* it and put it in the first empty slot (in none when the table is full).
\* front() and pop_front() of an empty deque are undefined: the thread either
\* sees a NULL decoder and returns, or the process dies.
WorkerStart ==
    /\ ~fault
    /\ pendingWorkers > 0
    /\ pendingWorkers' = pendingWorkers - 1
    /\ IF mDecoderQueue = <<>>
       THEN /\ fault' \in BOOLEAN
            /\ hist' = [hist EXCEPT !.emptyPop = TRUE]
            /\ UNCHANGED <<mDecoderQueue, decoderState, mActiveDecoders, worker>>
       ELSE LET d    == Head(mDecoderQueue)
                slot == FirstEmptySlot
            IN /\ mDecoderQueue' = Tail(mDecoderQueue)
               /\ decoderState' = [decoderState EXCEPT ![d] =
                      [NewDecoderState(d) EXCEPT
                          !.mTimeStamp = mNextDecoderStartingTimeStamp]]
               /\ mActiveDecoders' = IF slot = 0 THEN mActiveDecoders
                                     ELSE [mActiveDecoders EXCEPT ![slot] = d]
               /\ worker' = [worker EXCEPT ![d] = [NoWorker EXCEPT !.pc = "for"]]
               /\ hist' = [hist EXCEPT !.sessionOf[d] = hist.session]
               /\ UNCHANGED fault
    /\ UNCHANGED <<mFramesDecoded, mFramesRendered, mNextDecoderStartingTimeStamp,
                   mFramesRenderedLastPass, mKeepCollecting, isRunning, decoder,
                   rt, mRingBuffer, graphFormat, client>>

\* The same in two steps, for the interleavings between them.  Lines 1613-1630:
\* the thread takes the head of the queue.
WorkerPop ==
    /\ ~fault
    /\ pendingWorkers > 0
    /\ pendingWorkers' = pendingWorkers - 1
    /\ IF mDecoderQueue = <<>>
       THEN /\ fault' \in BOOLEAN
            /\ hist' = [hist EXCEPT !.emptyPop = TRUE]
            /\ UNCHANGED <<mDecoderQueue, worker>>
       ELSE /\ mDecoderQueue' = Tail(mDecoderQueue)
            /\ worker' = [worker EXCEPT ![Head(mDecoderQueue)] =
                             [NoWorker EXCEPT !.pc = "popped"]]
            /\ UNCHANGED <<fault, hist>>
    /\ UNCHANGED <<mFramesDecoded, mFramesRendered, mNextDecoderStartingTimeStamp,
                   mFramesRenderedLastPass, mActiveDecoders, mKeepCollecting,
                   isRunning, decoderState, decoder, rt, mRingBuffer, graphFormat,
                   client>>

\* lines 1641-1657: the decoder state is created, stamped and put in the first
\* empty slot
WorkerInstall(d) ==
    /\ ~fault
    /\ worker[d].pc = "popped"
    /\ LET slot == FirstEmptySlot
       IN /\ decoderState' = [decoderState EXCEPT ![d] =
                 [NewDecoderState(d) EXCEPT
                     !.mTimeStamp = mNextDecoderStartingTimeStamp]]
          /\ mActiveDecoders' = IF slot = 0 THEN mActiveDecoders
                                ELSE [mActiveDecoders EXCEPT ![slot] = d]
    /\ worker' = [worker EXCEPT ![d].pc = "for"]
    /\ hist' = [hist EXCEPT !.sessionOf[d] = hist.session]
    /\ UNCHANGED <<mFramesDecoded, mFramesRendered, mNextDecoderStartingTimeStamp,
                   mFramesRenderedLastPass, mDecoderQueue, mKeepCollecting,
                   isRunning, decoder, pendingWorkers, rt, mRingBuffer,
                   graphFormat, client, fault>>

\* line 1692: the pending target is handed to the decoder
SeekPassed(h, d, target) ==
    IF h.request[d] = target THEN [h EXCEPT !.request[d] = -1] ELSE h

\* lines 1680-1696 and 1777-1781: the space check at the top of the inner
\* loop, and, with room for a chunk and a seek pending, the decoder's seek
WorkerFor(d) ==
    /\ ~fault
    /\ worker[d].pc = "for"
    /\ LET space  == RING_BUFFER_SIZE_FRAMES - (mFramesDecoded - mFramesRendered)
           target == decoderState[d].mFrameToSeek
       IN IF ~UInt32AtLeast(space, RING_BUFFER_WRITE_CHUNK_SIZE_FRAMES)
          THEN /\ worker' = [worker EXCEPT ![d].pc = "wait"]
               /\ UNCHANGED decoder
          ELSE IF target = -1
          THEN /\ worker' = [worker EXCEPT ![d].pc = "decode"]
               /\ UNCHANGED decoder
          ELSE \E newFrame \in SeekResults(d, target) :
               /\ worker' = [worker EXCEPT ![d] =
                      [pc |-> "seekcas", before |-> decoder[d].cur,
                       newFrame |-> newFrame]]
               /\ decoder' = IF newFrame < 0 THEN decoder
                             ELSE [decoder EXCEPT ![d].cur = newFrame]
    /\ hist' = LET space  == RING_BUFFER_SIZE_FRAMES - (mFramesDecoded - mFramesRendered)
                   target == decoderState[d].mFrameToSeek
               IN IF UInt32AtLeast(space, RING_BUFFER_WRITE_CHUNK_SIZE_FRAMES)
                     /\ target # -1
                  THEN Touched(SeekPassed(hist, d, target), d)
                  ELSE Touched(hist, d)
    /\ UNCHANGED <<mFramesDecoded, mFramesRendered, mNextDecoderStartingTimeStamp,
                   mFramesRenderedLastPass, mDecoderQueue, mActiveDecoders,
                   mKeepCollecting, isRunning, decoderState, pendingWorkers, rt,
                   mRingBuffer, graphFormat, client, fault>>

\* lines 1697-1702: mFrameToSeek is read again and swapped for -1
WorkerSeekCas(d) ==
    /\ ~fault
    /\ worker[d].pc = "seekcas"
    /\ decoderState' = [decoderState EXCEPT ![d].mFrameToSeek = -1]
    /\ worker' = [worker EXCEPT ![d] =
                     IF worker[d].newFrame = -1 THEN [NoWorker EXCEPT !.pc = "decode"]
                     ELSE [@ EXCEPT !.pc = "seekfr"]]
    /\ hist' = Touched(hist, d)
    /\ UNCHANGED <<mFramesDecoded, mFramesRendered, mNextDecoderStartingTimeStamp,
                   mFramesRenderedLastPass, mDecoderQueue, mActiveDecoders,
                   mKeepCollecting, isRunning, decoder, pendingWorkers, rt,
                   mRingBuffer, graphFormat, client, fault>>

\* lines 1703-1707: the state's mFramesRendered is swapped for the new frame
WorkerSeekFramesRendered(d) ==
    /\ ~fault
    /\ worker[d].pc = "seekfr"
    /\ decoderState' = [decoderState EXCEPT ![d].mFramesRendered = worker[d].newFrame]
    /\ worker' = [worker EXCEPT ![d].pc = "seekdec"]
    /\ hist' = Touched(hist, d)
    /\ UNCHANGED <<mFramesDecoded, mFramesRendered, mNextDecoderStartingTimeStamp,
                   mFramesRenderedLastPass, mDecoderQueue, mActiveDecoders,
                   mKeepCollecting, isRunning, decoder, pendingWorkers, rt,
                   mRingBuffer, graphFormat, client, fault>>

\* line 1709: the skipped frames are added to mFramesDecoded
WorkerSeekFramesDecoded(d) ==
    /\ ~fault
    /\ worker[d].pc = "seekdec"
    /\ mFramesDecoded' = mFramesDecoded + (worker[d].newFrame - worker[d].before)
    /\ worker' = [worker EXCEPT ![d].pc = "seeksnap"]
    /\ UNCHANGED <<mFramesRendered, mNextDecoderStartingTimeStamp,
                   mFramesRenderedLastPass, mDecoderQueue, mActiveDecoders,
                   mKeepCollecting, isRunning, decoderState, decoder,
                   pendingWorkers, rt, mRingBuffer, graphFormat, client, fault, hist>>

\* lines 1710-1713: mFramesRendered is swapped for mFramesDecoded, and the
\* graph is reset
WorkerSeekSnap(d) ==
    /\ ~fault
    /\ worker[d].pc = "seeksnap"
    /\ mFramesRendered' = mFramesDecoded
    /\ worker' = [worker EXCEPT ![d] = [NoWorker EXCEPT !.pc = "decode"]]
    /\ UNCHANGED <<mFramesDecoded, mNextDecoderStartingTimeStamp,
                   mFramesRenderedLastPass, mDecoderQueue, mActiveDecoders,
                   mKeepCollecting, isRunning, decoderState, decoder,
                   pendingWorkers, rt, mRingBuffer, graphFormat, client, fault, hist>>

\* lines 1717-1776: read a chunk; store it and count it, or at end of stream
\* finish the decoder and start a thread for the next one in the queue
\* failed tells whether CARingBuffer::Store returns an error for the chunk
WorkerDecodeStoring(d, failed) ==
    /\ ~fault
    /\ worker[d].pc = "decode"
    /\ LET startingFrameNumber == decoder[d].cur
           framesDecoded == ReadAudio(d, RING_BUFFER_WRITE_CHUNK_SIZE_FRAMES)
           first   == IF startingFrameNumber = 0
                      THEN [hist EXCEPT !.decodingStarted[d] = Bump(@)] ELSE hist
           started == IF framesDecoded # 0 /\ failed
                      THEN [first EXCEPT !.storeErrors = Bump(@)] ELSE first
       IN /\ decoder' = [decoder EXCEPT ![d].cur = @ + framesDecoded]
          /\ IF framesDecoded # 0
             THEN /\ mRingBuffer' =
                        IF failed THEN mRingBuffer
                        ELSE Store(mRingBuffer, d, startingFrameNumber, framesDecoded,
                                   startingFrameNumber + decoderState[d].mTimeStamp)
                  /\ mFramesDecoded' = mFramesDecoded + framesDecoded
                  /\ worker' = [worker EXCEPT ![d].pc = "for"]
                  /\ hist' = Touched(started, d)
                  /\ UNCHANGED <<decoderState, mNextDecoderStartingTimeStamp,
                                 pendingWorkers>>
             ELSE /\ decoderState' = [decoderState EXCEPT
                        ![d].mKeepDecoding = FALSE,
                        ![d].mTotalFrames = startingFrameNumber]
                  /\ mNextDecoderStartingTimeStamp' =
                        mNextDecoderStartingTimeStamp + startingFrameNumber
                  /\ pendingWorkers' = IF Len(mDecoderQueue) > 0
                                       THEN pendingWorkers + 1 ELSE pendingWorkers
                  /\ worker' = [worker EXCEPT ![d].pc = "wait"]
                  /\ hist' = [Touched(started, d) EXCEPT
                        !.decodingFinished[d] = Bump(@),
                        !.eosSum = IF hist.sessionOf[d] = hist.session
                                   THEN @ + startingFrameNumber ELSE @]
                  /\ UNCHANGED <<mRingBuffer, mFramesDecoded>>
    /\ UNCHANGED <<mFramesRendered, mFramesRenderedLastPass, mDecoderQueue,
                   mActiveDecoders, mKeepCollecting, isRunning, rt, graphFormat,
                   client, fault>>

\* the step with the ring buffer of the program, which takes every chunk that
\* is not longer than its capacity
WorkerDecode(d) ==
    /\ worker[d].pc = "decode"
    /\ WorkerDecodeStoring(d, StoreFails(ReadAudio(d, RING_BUFFER_WRITE_CHUNK_SIZE_FRAMES)))

\* the step when Store returns an error for the chunk (lines 1729-1731)
WorkerDecodeStoreError(d) ==
    /\ ReadAudio(d, RING_BUFFER_WRITE_CHUNK_SIZE_FRAMES) # 0
    /\ WorkerDecodeStoring(d, TRUE)

\* lines 1677 and 1784: the wait on the decoder semaphore ends by a signal or
\* by its timeout, then the outer loop tests mKeepDecoding
WorkerWait(d) ==
    /\ ~fault
    /\ worker[d].pc = "wait"
    /\ worker' = [worker EXCEPT ![d].pc =
                     IF decoderState[d].mKeepDecoding THEN "for" ELSE "done"]
    /\ hist' = Touched(hist, d)
    /\ UNCHANGED <<mFramesDecoded, mFramesRendered, mNextDecoderStartingTimeStamp,
                   mFramesRenderedLastPass, mDecoderQueue, mActiveDecoders,
                   mKeepCollecting, isRunning, decoderState, decoder,
                   pendingWorkers, rt, mRingBuffer, graphFormat, client, fault>>

\* a running worker whose decoder state and decoder were deleted reads and
\* writes freed memory: the process may die there
WorkerFault(d) ==
    /\ ~fault
    /\ Running(d)
    /\ decoderState[d].life = "freed"
    /\ fault' = TRUE
    /\ hist' = [hist EXCEPT !.useAfterFree = TRUE]
    /\ UNCHANGED <<mFramesDecoded, mFramesRendered, mNextDecoderStartingTimeStamp,
                   mFramesRenderedLastPass, mDecoderQueue, mActiveDecoders,
                   mKeepCollecting, isRunning, decoderState, decoder, worker,
                   pendingWorkers, rt, mRingBuffer, graphFormat, client>>

\* ------------------------------------------------------ AudioPlayer::Stop
\* lines 357-364, past the IsPlaying test: Pause, StopActiveDecoders,
\* ResetAUGraph and the three counters set to 0; h is the history the call is
\* recorded in
StopBodyIn(h) ==
    /\ isRunning' = FALSE
    /\ decoderState' = StopActiveDecoders(decoderState)
    /\ mFramesDecoded' = 0
    /\ mFramesRendered' = 0
    /\ mNextDecoderStartingTimeStamp' = 0
    /\ hist' = [h EXCEPT !.session = @ + 1, !.eosSum = 0, !.stopped = TRUE]

StopBody == StopBodyIn(hist)

\* ---------------------------------------------------- AudioPlayer::Render
\* lines 1497-1517: the frames available, the silent pass, the fetch
RenderFetch(inNumberFrames) ==
    /\ ~fault
    /\ rt.pc = "idle"
    /\ isRunning
    /\ LET available == mFramesDecoded - mFramesRendered
           framesToRead == UInt32Min(available, inNumberFrames)
       IN IF available = 0
          THEN /\ rt' = [IdleRender EXCEPT !.pc = "did",
                                           !.left = mFramesRenderedLastPass]
               /\ hist' = Deliver(hist, <<Silence>>)
          ELSE /\ rt' = [IdleRender EXCEPT !.pc = "add", !.n = framesToRead,
                                           !.req = inNumberFrames,
                                           !.from = mFramesRendered,
                                           !.zero = inNumberFrames - framesToRead]
               /\ hist' = Deliver(hist, Fetch(mRingBuffer, framesToRead, mFramesRendered)
                          \o (IF framesToRead # inNumberFrames
                              THEN <<Silence>> ELSE <<>>))
    /\ UNCHANGED <<mFramesDecoded, mFramesRendered, mNextDecoderStartingTimeStamp,
                   mFramesRenderedLastPass, mDecoderQueue, mActiveDecoders,
                   mKeepCollecting, isRunning, decoderState, decoder, worker,
                   pendingWorkers, mRingBuffer, graphFormat, client, fault>>

\* a pass that decides on the signal before it has counted its frames
RenderAddSignalsEarly ==
    /\ ~fault
    /\ rt.pc = "add"
    /\ mFramesRenderedLastPass' = rt.n
    /\ mFramesRendered' = mFramesRendered + rt.n
    /\ rt' = [rt EXCEPT !.pc = "did", !.left = rt.n, !.req = 0, !.from = 0, !.zero = 0,
                        !.signal = UInt32AtLeast(
                            RING_BUFFER_SIZE_FRAMES - (mFramesDecoded - mFramesRendered),
                            RING_BUFFER_WRITE_CHUNK_SIZE_FRAMES)]
    /\ hist' = [hist EXCEPT !.realtime =
                    @ \cup {"OSAtomicAdd64Barrier"}
                      \cup (IF rt'.signal THEN {"semaphore_signal"} ELSE {})]
    /\ UNCHANGED <<mFramesDecoded, mNextDecoderStartingTimeStamp, mDecoderQueue,
                   mActiveDecoders, mKeepCollecting, isRunning, decoderState,
                   decoder, worker, pendingWorkers, mRingBuffer, graphFormat, client, fault>>

\* lines 1519-1540: the pass is recorded and added to mFramesRendered, the
\* rest of the output was zeroed, and the decoder semaphore is signalled when
\* the ring buffer has room for a chunk; rt.signal tells whether it was
RenderAdd ==
    /\ ~fault
    /\ rt.pc = "add"
    /\ mFramesRenderedLastPass' = rt.n
    /\ mFramesRendered' = mFramesRendered + rt.n
    /\ rt' = [rt EXCEPT !.pc = "did", !.left = rt.n, !.req = 0, !.from = 0, !.zero = 0,
                        !.signal = UInt32AtLeast(
                            RING_BUFFER_SIZE_FRAMES - (mFramesDecoded - mFramesRendered'),
                            RING_BUFFER_WRITE_CHUNK_SIZE_FRAMES)]
    /\ hist' = [hist EXCEPT !.realtime =
                    @ \cup {"OSAtomicAdd64Barrier"}
                      \cup (IF rt'.signal THEN {"semaphore_signal"} ELSE {})]
    /\ UNCHANGED <<mFramesDecoded, mNextDecoderStartingTimeStamp, mDecoderQueue,
                   mActiveDecoders, mKeepCollecting, isRunning, decoderState,
                   decoder, worker, pendingWorkers, mRingBuffer, graphFormat, client, fault>>

\* ------------------------------------------------- AudioPlayer::DidRender
\* the slots from i on that hold a state not ready for collection
Attributable(i) ==
    {j \in Slots : /\ j >= i
                   /\ mActiveDecoders[j] # NULL
                   /\ ~decoderState[mActiveDecoders[j]].mReadyForCollection}

\* lines 1558-1580: nothing to do after a pass of 0 frames; else the next
\* state of the table that is not ready for collection, its share of the
\* pass, and the rendering-started callback
DidRenderVisit ==
    /\ ~fault
    /\ rt.pc = "did"
    /\ IF mFramesRenderedLastPass = 0
       THEN /\ rt' = IdleRender
            /\ UNCHANGED hist
       ELSE IF Attributable(rt.i) = {}
       THEN /\ rt' = [rt EXCEPT !.pc = "end"]
            /\ UNCHANGED hist
       ELSE LET j == CHOOSE k \in Attributable(rt.i) :
                        \A m \in Attributable(rt.i) : k <= m
                d == mActiveDecoders[j]
                decoderFramesRemaining ==
                    decoderState[d].mTotalFrames - decoderState[d].mFramesRendered
                framesFromThisDecoder ==
                    Min(decoderFramesRemaining, mFramesRenderedLastPass)
            IN /\ rt' = [rt EXCEPT !.pc = "didadd", !.i = j, !.d = d,
                                   !.give = framesFromThisDecoder]
               /\ hist' = IF decoderState[d].mFramesRendered = 0
                          THEN [hist EXCEPT !.renderingStarted[d] = Bump(@)]
                          ELSE hist
    /\ UNCHANGED <<mFramesDecoded, mFramesRendered, mNextDecoderStartingTimeStamp,
                   mFramesRenderedLastPass, mDecoderQueue, mActiveDecoders,
                   mKeepCollecting, isRunning, decoderState, decoder, worker,
                   pendingWorkers, mRingBuffer, graphFormat, client, fault>>

\* lines 1582-1596: the share is added to the state's mFramesRendered, the
\* state is finished when that reaches mTotalFrames, and the loop goes on
\* while framesRemainingToDistribute is not 0
DidRenderAdd ==
    /\ ~fault
    /\ rt.pc = "didadd"
    /\ LET d == rt.d
           rendered == decoderState[d].mFramesRendered + rt.give
           finished == rendered = decoderState[d].mTotalFrames
           left == rt.left - rt.give
       IN /\ decoderState' = [decoderState EXCEPT
                 ![d].mFramesRendered = rendered,
                 ![d].mReadyForCollection = IF finished THEN TRUE ELSE @]
          /\ hist' = IF finished
                     THEN [hist EXCEPT !.renderingFinished[d] = Bump(@),
                                       !.realtime = @ \cup {"OSAtomicAdd64Barrier",
                                                            "semaphore_signal"}]
                     ELSE [hist EXCEPT !.realtime = @ \cup {"OSAtomicAdd64Barrier"}]
          /\ rt' = IF left = 0 \/ rt.i = ActiveDecoderArraySize
                   THEN [rt EXCEPT !.pc = "end", !.left = left]
                   ELSE [rt EXCEPT !.pc = "did", !.left = left, !.i = rt.i + 1]
    /\ UNCHANGED <<mFramesDecoded, mFramesRendered, mNextDecoderStartingTimeStamp,
                   mFramesRenderedLastPass, mDecoderQueue, mActiveDecoders,
                   mKeepCollecting, isRunning, decoder, worker, pendingWorkers,
                   mRingBuffer, graphFormat, client, fault>>

\* a post-render step whose Stop also empties the decoder queue under its mutex
DidRenderEndClearingQueue ==
    /\ ~fault
    /\ rt.pc = "end"
    /\ rt' = IdleRender
    /\ IF GetCurrentDecoderState = NULL /\ isRunning
       THEN /\ StopBodyIn([hist EXCEPT !.realtime =
                               @ \cup {"pthread_mutex_lock", "semaphore_signal"}])
            /\ mDecoderQueue' = <<>>
       ELSE UNCHANGED <<isRunning, decoderState, mFramesDecoded, mFramesRendered,
                        mNextDecoderStartingTimeStamp, hist, mDecoderQueue>>
    /\ UNCHANGED <<mFramesRenderedLastPass, mActiveDecoders,
                   mKeepCollecting, decoder, worker, pendingWorkers, mRingBuffer, graphFormat,
                   client, fault>>

\* lines 1598-1603: with no current decoder state left, Stop, whose
\* StopActiveDecoders signals the two semaphores (lines 2569-2571)
DidRenderEnd ==
    /\ ~fault
    /\ rt.pc = "end"
    /\ rt' = IdleRender
    /\ IF GetCurrentDecoderState = NULL /\ isRunning
       THEN StopBodyIn([hist EXCEPT !.realtime = @ \cup {"semaphore_signal"}])
       ELSE UNCHANGED <<isRunning, decoderState, mFramesDecoded, mFramesRendered,
                        mNextDecoderStartingTimeStamp, hist>>
    /\ UNCHANGED <<mFramesRenderedLastPass, mDecoderQueue, mActiveDecoders,
                   mKeepCollecting, decoder, worker, pendingWorkers, mRingBuffer, graphFormat,
                   client, fault>>

\* ------------------------------------------ AudioPlayer::CollectorThreadEntry
\* a collector that deletes any state it finds in a slot, ready or not
CollectUnready(i) ==
    /\ ~fault
    /\ mKeepCollecting
    /\ mActiveDecoders[i] # NULL
    /\ mActiveDecoders' = [mActiveDecoders EXCEPT ![i] = NULL]
    /\ decoderState' = [decoderState EXCEPT ![mActiveDecoders[i]].life = "freed"]
    /\ UNCHANGED <<mFramesDecoded, mFramesRendered, mNextDecoderStartingTimeStamp,
                   mFramesRenderedLastPass, mDecoderQueue, mKeepCollecting,
                   isRunning, decoder, worker, pendingWorkers, rt, mRingBuffer,
                   graphFormat, client, fault, hist>>

\* a collector that takes a ready state out of its slot and does not delete it
CollectWithoutDelete(i) ==
    /\ ~fault
    /\ mKeepCollecting
    /\ mActiveDecoders[i] # NULL
    /\ decoderState[mActiveDecoders[i]].mReadyForCollection
    /\ mActiveDecoders' = [mActiveDecoders EXCEPT ![i] = NULL]
    /\ UNCHANGED <<mFramesDecoded, mFramesRendered, mNextDecoderStartingTimeStamp,
                   mFramesRenderedLastPass, mDecoderQueue, mKeepCollecting,
                   isRunning, decoderState, decoder, worker, pendingWorkers, rt,
                   mRingBuffer, graphFormat, client, fault, hist>>

\* lines 1806-1819: a state that is ready for collection is swapped out of its
\* slot and deleted, with its decoder
Collect(i) ==
    /\ ~fault
    /\ mKeepCollecting
    /\ mActiveDecoders[i] # NULL
    /\ decoderState[mActiveDecoders[i]].mReadyForCollection
    /\ mActiveDecoders' = [mActiveDecoders EXCEPT ![i] = NULL]
    /\ decoderState' = [decoderState EXCEPT ![mActiveDecoders[i]].life = "freed"]
    /\ UNCHANGED <<mFramesDecoded, mFramesRendered, mNextDecoderStartingTimeStamp,
                   mFramesRenderedLastPass, mDecoderQueue, mKeepCollecting,
                   isRunning, decoder, worker, pendingWorkers, rt, mRingBuffer, graphFormat,
                   client, fault, hist>>

\* ------------------------------------------------------------ the controller
\* The client performs the operations of client.todo in order, each at any
\* time; client.next is the decoder it hands over next.  Inside SeekToFrame,
\* client.pc is "seekcas" and cur, old and frame are its locals.
Todo(op) == client.pc = "idle" /\ client.todo # <<>> /\ Head(client.todo) = op

\* AUGraphStop returns once the render cycle under way has ended, so an
\* operation that pauses a running graph takes effect between two cycles
GraphCanStop == isRunning => rt.pc = "idle"

\* mDecoderQueue.push_front(decoder), line 1309
PushFront(q, d) == <<d>> \o q

\* an insertion that puts the newest decoder first
InsertFirst(q, d) == <<d>> \o q

\* mDecoderQueue.push_back(decoder), line 1447
PushBack(q, d) == Append(q, d)

\* AudioPlayer::Play(AudioDecoder *), lines 1291-1347, for decoder d, every
\* call it makes succeeding; the graph is paused for its duration.  h is the
\* history the call is recorded in.
PlayBodyIn(h, d) ==
    /\ GraphCanStop
    /\ decoderState' = StopActiveDecoders(decoderState)
    /\ mFramesDecoded' = 0
    /\ mFramesRendered' = 0
    /\ mNextDecoderStartingTimeStamp' = 0
    /\ mDecoderQueue' = PushFront(mDecoderQueue, d)
    /\ graphFormat' = decoder[d].format
    /\ mRingBuffer' = EmptyRing
    /\ pendingWorkers' = pendingWorkers + 1
    /\ hist' = [h EXCEPT !.session = @ + 1, !.eosSum = 0, !.stopped = FALSE,
                         !.returned[d] = "true"]
    /\ UNCHANGED <<mFramesRenderedLastPass, mActiveDecoders, mKeepCollecting,
                   isRunning, decoder, worker, rt, fault>>

PlayBody(d) == PlayBodyIn(hist, d)

\* the same, lines 1291-1340, returning false: SetAUGraphFormat fails (at =
\* "format", lines 1315-1320) or pthread_create fails (at = "thread", lines
\* 1337-1340).  The decoder is in the queue by then, no thread is created and
\* a graph that was running stays paused.
PlayBodyFailed(d, at) ==
    /\ GraphCanStop
    /\ isRunning' = FALSE
    /\ decoderState' = StopActiveDecoders(decoderState)
    /\ mFramesDecoded' = 0
    /\ mFramesRendered' = 0
    /\ mNextDecoderStartingTimeStamp' = 0
    /\ mDecoderQueue' = PushFront(mDecoderQueue, d)
    /\ graphFormat' = IF at = "thread" THEN decoder[d].format ELSE graphFormat
    /\ mRingBuffer' = IF at = "thread" THEN EmptyRing ELSE mRingBuffer
    /\ hist' = [hist EXCEPT !.session = @ + 1, !.eosSum = 0, !.stopped = FALSE,
                            !.returned[d] = "false"]
    /\ UNCHANGED <<mFramesRenderedLastPass, mActiveDecoders, mKeepCollecting,
                   decoder, worker, pendingWorkers, rt, fault>>

PlayDecoder ==
    /\ ~fault
    /\ Todo("play")
    /\ client.next <= NumDecoders
    /\ client' = [client EXCEPT !.next = @ + 1, !.todo = Tail(@)]
    /\ PlayBody(client.next)

\* Play(AudioDecoder *) during which a call on the graph or the thread
\* creation fails
PlayDecoderFails ==
    /\ ~fault
    /\ Todo("playfail")
    /\ client.next <= NumDecoders
    /\ client' = [client EXCEPT !.next = @ + 1, !.todo = Tail(@)]
    /\ \E at \in {"format", "thread"} : PlayBodyFailed(client.next, at)

\* a comparison that lets every format pass
FormatsAlwaysMatch(d) == d \in Decoders

\* line 1432: sample rate and channel count of the decoder against those of
\* the graph's output unit
FormatsMatch(d) == decoder[d].format = graphFormat

\* AudioPlayer::Enqueue(AudioDecoder *), lines 1367-1455: Play when nothing
\* is active or queued; else false when the formats differ, and else the
\* decoder goes to the back of the queue
Enqueue ==
    /\ ~fault
    /\ Todo("enqueue")
    /\ client.next <= NumDecoders
    /\ client' = [client EXCEPT !.next = @ + 1, !.todo = Tail(@)]
    /\ IF GetCurrentDecoderState = NULL /\ Len(mDecoderQueue) = 0
       THEN PlayBodyIn([hist EXCEPT !.degraded = @ \cup {client.next}],
                       client.next)
       ELSE /\ IF FormatsMatch(client.next)
               THEN /\ mDecoderQueue' = PushBack(mDecoderQueue, client.next)
                    /\ hist' = [hist EXCEPT !.queued = @ \cup {client.next},
                                            !.returned[client.next] = "true"]
               ELSE /\ mDecoderQueue' = mDecoderQueue
                    /\ hist' = [hist EXCEPT !.returned[client.next] = "false"]
            /\ UNCHANGED <<mFramesDecoded, mFramesRendered,
                           mNextDecoderStartingTimeStamp, mFramesRenderedLastPass,
                           mActiveDecoders, mKeepCollecting, isRunning,
                           decoderState, decoder, worker, pendingWorkers, rt,
                           mRingBuffer, graphFormat, fault>>

\* AudioPlayer::Play(), lines 330-339
Play ==
    /\ ~fault
    /\ Todo("resume")
    /\ client' = [client EXCEPT !.todo = Tail(@)]
    /\ isRunning' = TRUE
    /\ hist' = IF isRunning THEN hist
               ELSE [hist EXCEPT !.startedWith = mFramesDecoded,
                                 !.stopped = FALSE]
    /\ UNCHANGED <<mFramesDecoded, mFramesRendered, mNextDecoderStartingTimeStamp,
                   mFramesRenderedLastPass, mDecoderQueue, mActiveDecoders,
                   mKeepCollecting, decoderState, decoder, worker, pendingWorkers,
                   rt, mRingBuffer, graphFormat, fault>>

\* AudioPlayer::Pause(), lines 341-350
Pause ==
    /\ ~fault
    /\ Todo("pause")
    /\ GraphCanStop
    /\ client' = [client EXCEPT !.todo = Tail(@)]
    /\ isRunning' = FALSE
    /\ UNCHANGED <<mFramesDecoded, mFramesRendered, mNextDecoderStartingTimeStamp,
                   mFramesRenderedLastPass, mDecoderQueue, mActiveDecoders,
                   mKeepCollecting, decoderState, decoder, worker, pendingWorkers,
                   rt, mRingBuffer, graphFormat, fault, hist>>

\* AudioPlayer::Stop(), lines 352-365
Stop ==
    /\ ~fault
    /\ Todo("stop")
    /\ GraphCanStop
    /\ client' = [client EXCEPT !.todo = Tail(@)]
    /\ IF isRunning
       THEN StopBody
       ELSE UNCHANGED <<isRunning, decoderState, mFramesDecoded, mFramesRendered,
                        mNextDecoderStartingTimeStamp, hist>>
    /\ UNCHANGED <<mFramesRenderedLastPass, mDecoderQueue, mActiveDecoders,
                   mKeepCollecting, decoder, worker, pendingWorkers, rt,
                   mRingBuffer, graphFormat, fault>>

\* AudioPlayer::~AudioPlayer, lines 272-303: the graph is disposed of, the
\* active decoders are stopped, the collector thread is ended and joined, the
\* states it left in the table are deleted and the queue is emptied.  The
\* worker threads are not joined: one that is running or yet to start goes on
\* with a deleted player, and the process may die there.
Destructor ==
    /\ ~fault
    /\ Todo("delete")
    /\ GraphCanStop
    /\ client' = [client EXCEPT !.todo = Tail(@)]
    /\ isRunning' = FALSE
    /\ mKeepCollecting' = FALSE
    /\ decoderState' = [d \in Decoders |->
                           IF \E i \in Slots : mActiveDecoders[i] = d
                           THEN [decoderState[d] EXCEPT !.mKeepDecoding = FALSE,
                                                        !.mReadyForCollection = TRUE,
                                                        !.life = "freed"]
                           ELSE decoderState[d]]
    /\ mActiveDecoders' = [i \in Slots |-> NULL]
    /\ mDecoderQueue' = <<>>
    /\ LET busy == pendingWorkers > 0 \/ \E d \in Decoders : Running(d)
       IN /\ fault' \in (IF busy THEN BOOLEAN ELSE {FALSE})
          /\ hist' = [hist EXCEPT !.useAfterFree = @ \/ busy,
                                  !.deleted = @ \cup Elements(mDecoderQueue)]
    /\ UNCHANGED <<mFramesDecoded, mFramesRendered, mNextDecoderStartingTimeStamp,
                   mFramesRenderedLastPass, decoder, worker, pendingWorkers, rt,
                   mRingBuffer, graphFormat>>

\* AudioPlayer::SeekToFrame(frame), lines 467-491, the read of mFrameToSeek
\* and the swap taken together
SeekToFrame(frame) ==
    /\ ~fault
    /\ Todo("seek")
    /\ client' = [client EXCEPT !.todo = Tail(@)]
    /\ LET cur == GetCurrentDecoderState
       IN IF cur = NULL \/ ~decoder[cur].seekable
          THEN /\ UNCHANGED decoderState
               /\ hist' = [hist EXCEPT !.seek = [result |-> "false", arg |-> frame,
                                                      via |-> "frame", total |-> -1]]
          ELSE /\ decoderState' = [decoderState EXCEPT ![cur].mFrameToSeek = frame]
               /\ hist' = [hist EXCEPT !.seek = [result |-> "true", arg |-> frame,
                                                      via |-> "frame", total |-> -1],
                                       !.request[cur] = frame]
    /\ UNCHANGED <<mFramesDecoded, mFramesRendered, mNextDecoderStartingTimeStamp,
                   mFramesRenderedLastPass, mDecoderQueue, mActiveDecoders,
                   mKeepCollecting, isRunning, decoder, worker, pendingWorkers, rt,
                   mRingBuffer, graphFormat, fault>>

\* AudioPlayer::SeekToFrame(frame), lines 467-485, up to the read of
\* mFrameToSeek that is the first argument of the swap; via is the caller and
\* total the caller's totalFrames.  A negative frame fails the assertion of
\* line 469 in a build that keeps assertions.
SeekToFrameBegin(frame, via, total) ==
    /\ LET cur == GetCurrentDecoderState
       IN IF cur = NULL \/ ~decoder[cur].seekable
          THEN /\ client' = [client EXCEPT !.todo = Tail(@)]
               /\ hist' = [hist EXCEPT !.seek = [result |-> "false", arg |-> frame,
                                                 via |-> via, total |-> total]]
          ELSE /\ client' = [client EXCEPT !.pc = "seekcas", !.cur = cur,
                                           !.old = decoderState[cur].mFrameToSeek,
                                           !.frame = frame]
               /\ hist' = [hist EXCEPT !.seek = [result |-> "none", arg |-> frame,
                                                 via |-> via, total |-> total]]
    /\ fault' \in (IF frame < 0 THEN BOOLEAN ELSE {FALSE})
    /\ UNCHANGED <<mFramesDecoded, mFramesRendered, mNextDecoderStartingTimeStamp,
                   mFramesRenderedLastPass, mDecoderQueue, mActiveDecoders,
                   mKeepCollecting, isRunning, decoderState, decoder, worker,
                   pendingWorkers, rt, mRingBuffer, graphFormat>>

\* the client calls SeekToFrame(frame)
SeekToFrameRead(frame) ==
    /\ ~fault
    /\ Todo("seek")
    /\ SeekToFrameBegin(frame, "frame", -1)

\* lines 485-490: the swap of mFrameToSeek from the value read to frame, and
\* the return
SeekToFrameSwap ==
    /\ ~fault
    /\ client.pc = "seekcas"
    /\ client' = [client EXCEPT !.todo = Tail(@), !.pc = "idle", !.cur = NULL,
                                !.old = -1, !.frame = -1]
    /\ LET cur == client.cur
       IN IF decoderState[cur].life = "freed"
          THEN /\ hist' = [hist EXCEPT !.seek.result = "false", !.useAfterFree = TRUE]
               /\ UNCHANGED decoderState
          ELSE IF decoderState[cur].mFrameToSeek = client.old
          THEN /\ decoderState' = [decoderState EXCEPT ![cur].mFrameToSeek = client.frame]
               /\ hist' = [hist EXCEPT !.seek.result = "true",
                                       !.request[cur] = client.frame]
          ELSE /\ hist' = [hist EXCEPT !.seek.result = "false"]
               /\ UNCHANGED decoderState
    /\ UNCHANGED <<mFramesDecoded, mFramesRendered, mNextDecoderStartingTimeStamp,
                   mFramesRenderedLastPass, mDecoderQueue, mActiveDecoders,
                   mKeepCollecting, isRunning, decoder, worker, pendingWorkers, rt,
                   mRingBuffer, graphFormat, fault>>

\* AudioStreamBasicDescription::mSampleRate of a format
SampleRate(f) == IF f = "44100/2" THEN 44100 ELSE 48000

\* static_cast<SInt64>(seconds * sampleRate), the time given in milliseconds:
\* the conversion drops the fraction, towards zero
FrameCount(ms, rate) ==
    IF ms >= 0 THEN (ms * rate) \div 1000 ELSE -(((-ms) * rate) \div 1000)

\* AudioPlayer::GetCurrentFrame, lines 381-389
GetCurrentFrame ==
    LET cur == GetCurrentDecoderState
    IN IF cur = NULL THEN -1
       ELSE IF decoderState[cur].mFrameToSeek = -1
            THEN decoderState[cur].mFramesRendered
            ELSE decoderState[cur].mFrameToSeek

\* AudioPlayer::GetTotalFrames, lines 391-399
GetTotalFrames ==
    LET cur == GetCurrentDecoderState
    IN IF cur = NULL THEN -1 ELSE decoderState[cur].mTotalFrames

\* a seek function that finds no current decoder state returns false
SeekWithoutDecoder ==
    /\ client' = [client EXCEPT !.todo = Tail(@)]
    /\ hist' = [hist EXCEPT !.seek = [result |-> "false", arg |-> -1,
                                      via |-> "none", total |-> -1]]
    /\ UNCHANGED <<mFramesDecoded, mFramesRendered, mNextDecoderStartingTimeStamp,
                   mFramesRenderedLastPass, mDecoderQueue, mActiveDecoders,
                   mKeepCollecting, isRunning, decoderState, decoder, worker,
                   pendingWorkers, rt, mRingBuffer, graphFormat, fault>>

\* AudioPlayer::SeekForward(secondsToSkip), lines 426-438
SeekForward(ms) ==
    /\ ~fault
    /\ Todo("forward")
    /\ LET cur == GetCurrentDecoderState
       IN IF cur = NULL THEN SeekWithoutDecoder
          ELSE LET frameCount   == FrameCount(ms, SampleRate(decoder[cur].format))
                   desiredFrame == GetCurrentFrame + frameCount
                   totalFrames  == decoderState[cur].mTotalFrames
               IN SeekToFrameBegin(Min(desiredFrame, totalFrames), "forward", totalFrames)

\* AudioPlayer::SeekBackward(secondsToSkip), lines 440-452
SeekBackward(ms) ==
    /\ ~fault
    /\ Todo("backward")
    /\ LET cur == GetCurrentDecoderState
       IN IF cur = NULL THEN SeekWithoutDecoder
          ELSE LET frameCount   == FrameCount(ms, SampleRate(decoder[cur].format))
                   currentFrame == GetCurrentFrame
                   desiredFrame == currentFrame - frameCount
               IN SeekToFrameBegin(Max(0, desiredFrame), "backward",
                                   decoderState[cur].mTotalFrames)

\* AudioPlayer::SeekToTime(timeInSeconds), lines 454-465
SeekToTime(ms) ==
    /\ ~fault
    /\ Todo("time")
    /\ LET cur == GetCurrentDecoderState
       IN IF cur = NULL THEN SeekWithoutDecoder
          ELSE LET desiredFrame == FrameCount(ms, SampleRate(decoder[cur].format))
                   totalFrames  == decoderState[cur].mTotalFrames
               IN SeekToFrameBegin(Max(0, Min(desiredFrame, totalFrames)), "time",
                                   totalFrames)

\* a clearing of the queue that also stops the active decoders
ClearQueuedAndActiveDecoders ==
    /\ ~fault
    /\ Todo("clear")
    /\ client' = [client EXCEPT !.todo = Tail(@)]
    /\ mDecoderQueue' = <<>>
    /\ decoderState' = StopActiveDecoders(decoderState)
    /\ hist' = [hist EXCEPT !.deleted = @ \cup Elements(mDecoderQueue)]
    /\ UNCHANGED <<mFramesDecoded, mFramesRendered, mNextDecoderStartingTimeStamp,
                   mFramesRenderedLastPass, mActiveDecoders, mKeepCollecting,
                   isRunning, decoder, worker, pendingWorkers, rt,
                   mRingBuffer, graphFormat, fault>>

\* AudioPlayer::ClearQueuedDecoders, lines 1457-1478: with the mutex held,
\* every decoder of the queue is taken from it and deleted
ClearQueuedDecoders ==
    /\ ~fault
    /\ Todo("clear")
    /\ client' = [client EXCEPT !.todo = Tail(@)]
    /\ mDecoderQueue' = <<>>
    /\ hist' = [hist EXCEPT !.deleted = @ \cup Elements(mDecoderQueue)]
    /\ UNCHANGED <<mFramesDecoded, mFramesRendered, mNextDecoderStartingTimeStamp,
                   mFramesRenderedLastPass, mActiveDecoders, mKeepCollecting,
                   isRunning, decoderState, decoder, worker, pendingWorkers, rt,
                   mRingBuffer, graphFormat, fault>>

\* ------------------------------------------------------------ specifications
\* frames the client seeks to
SeekTargets == {0, 4096}
\* what mFramesRenderedLastPass may hold before the first pass writes it
UninitialisedLastPass == {0, 1024}

Chunk == RING_BUFFER_WRITE_CHUNK_SIZE_FRAMES

Client(todo) ==
    [next |-> 1, todo |-> todo, pc |-> "idle", cur |-> NULL, old |-> -1, frame |-> -1]

WorkerStep ==
    \/ WorkerStart
    \/ \E d \in Decoders :
          \/ WorkerFor(d)
          \/ WorkerDecode(d)
          \/ WorkerWait(d)
          \/ WorkerFault(d)

SeekStep ==
    \E d \in Decoders :
        \/ WorkerSeekCas(d)
        \/ WorkerSeekFramesRendered(d)
        \/ WorkerSeekFramesDecoded(d)
        \/ WorkerSeekSnap(d)

\* the realtime thread, the host asking for one of sizes frames per cycle
RenderStep(sizes) ==
    \/ \E n \in sizes : RenderFetch(n)
    \/ RenderAdd
    \/ DidRenderVisit
    \/ DidRenderAdd
    \/ DidRenderEnd

CollectorStep == \E i \in Slots : Collect(i)

\* Spec: one decoder of two chunks is played, sought in and stopped
Init ==
    /\ \E lastPass \in UninitialisedLastPass : InitPlayer(lastPass)
    /\ decoder = [d \in Decoders |-> NewDecoder(2 * Chunk, 2 * Chunk, TRUE)]
    /\ \E todo \in {<<"play", "resume", "seek", "stop">>,
                   <<"play", "resume", "stop", "seek">>,
                   <<"play", "seek", "resume", "stop">>} : client = Client(todo)

Next ==
    \/ WorkerStep
    \/ SeekStep
    \/ RenderStep({1024, 2048})
    \/ CollectorStep
    \/ PlayDecoder
    \/ Play
    \/ Stop
    \/ \E f \in SeekTargets : SeekToFrame(f)

Spec == Init /\ [][Next]_vars

\* SpecGapless: a decoder of 3072 frames is played and one of 4096 frames is
\* enqueued behind it; the host renders 2048 frames per cycle
InitGapless ==
    /\ \E lastPass \in UninitialisedLastPass : InitPlayer(lastPass)
    /\ decoder = [d \in Decoders |->
                     IF d = 1 THEN NewDecoder(Chunk + 1024, Chunk + 1024, TRUE)
                     ELSE NewDecoder(2 * Chunk, 2 * Chunk, TRUE)]
    /\ \E todo \in {<<"play", "enqueue", "resume">>,
                   <<"play", "resume", "enqueue">>} : client = Client(todo)

NextGapless ==
    \/ WorkerStep
    \/ RenderStep({2048})
    \/ CollectorStep
    \/ PlayDecoder
    \/ Enqueue
    \/ Play

SpecGapless == InitGapless /\ [][NextGapless]_vars

\* SpecQueue: one decoder is played and two more are enqueued, each
\* of one chunk; the host renders one chunk per cycle
InitQueue ==
    /\ \E lastPass \in UninitialisedLastPass : InitPlayer(lastPass)
    /\ decoder = [d \in Decoders |-> NewDecoder(Chunk, Chunk, TRUE)]
    /\ client = Client(<<"play", "enqueue", "enqueue", "resume">>)

NextQueue ==
    \/ WorkerStep
    \/ RenderStep({Chunk})
    \/ CollectorStep
    \/ PlayDecoder
    \/ Enqueue
    \/ Play

SpecQueue == InitQueue /\ [][NextQueue]_vars

\* SpecReplay: decoders are played one over the other and the graph is never
\* started, so that the workers fill the ring; the first decoder has eight
\* chunks, the later ones one
InitReplay ==
    /\ \E lastPass \in UninitialisedLastPass : InitPlayer(lastPass)
    /\ decoder = [d \in Decoders |->
                     IF d = 1 THEN NewDecoder(8 * Chunk, 8 * Chunk, TRUE)
                     ELSE NewDecoder(Chunk, Chunk, TRUE)]
    /\ client = Client(<<"play", "play">>)

NextReplay ==
    \/ WorkerStep
    \/ CollectorStep
    \/ PlayDecoder

SpecReplay == InitReplay /\ [][NextReplay]_vars

\* SpecStop: one decoder of two chunks is played and the player is stopped,
\* with the graph never started, paused or running
InitStop ==
    /\ \E lastPass \in UninitialisedLastPass : InitPlayer(lastPass)
    /\ decoder = [d \in Decoders |-> NewDecoder(2 * Chunk, 2 * Chunk, TRUE)]
    /\ \E todo \in {<<"play", "stop">>,
                   <<"play", "resume", "pause", "stop">>,
                   <<"play", "resume", "stop">>} : client = Client(todo)

NextStop ==
    \/ WorkerStep
    \/ RenderStep({Chunk})
    \/ CollectorStep
    \/ PlayDecoder
    \/ Play
    \/ Pause
    \/ Stop

SpecStop == InitStop /\ [][NextStop]_vars

\* SpecEnqueue: decoders are handed to Enqueue and Play, the third one with
\* either format; a Play may fail; the workers start in two steps
InitEnqueue ==
    /\ \E lastPass \in UninitialisedLastPass : InitPlayer(lastPass)
    /\ \E f \in Formats :
          decoder = [d \in Decoders |->
                        IF d < 3 THEN NewDecoder(Chunk, Chunk, TRUE)
                        ELSE [NewDecoder(Chunk, Chunk, TRUE) EXCEPT !.format = f]]
    /\ \E todo \in {<<"enqueue", "enqueue", "enqueue">>,
                   <<"play", "resume", "stop", "enqueue", "enqueue">>,
                   <<"playfail", "enqueue", "enqueue">>} : client = Client(todo)

NextEnqueue ==
    \/ WorkerPop
    \/ \E d \in Decoders :
          \/ WorkerInstall(d)
          \/ WorkerFor(d)
          \/ WorkerDecode(d)
          \/ WorkerWait(d)
          \/ WorkerFault(d)
    \/ RenderStep({Chunk})
    \/ CollectorStep
    \/ PlayDecoder
    \/ PlayDecoderFails
    \/ Enqueue
    \/ Play
    \/ Stop

SpecEnqueue == InitEnqueue /\ [][NextEnqueue]_vars

\* ------------------------------------------------------------------- claims
\* the decoder states the table holds that are not ready for collection
Active == {d \in Decoders : /\ \E i \in Slots : mActiveDecoders[i] = d
                            /\ ~decoderState[d].mReadyForCollection}

\* C1: in every reachable state the global counters satisfy
\* 0 <= mFramesRendered <= mFramesDecoded.
C1_RenderedWithinDecoded ==
    0 <= mFramesRendered /\ mFramesRendered <= mFramesDecoded

\* C2: in every reachable state the frames decoded and not yet rendered fit
\* the ring: mFramesDecoded - mFramesRendered <= RING_BUFFER_SIZE_FRAMES.
C2_SpanWithinRing ==
    mFramesDecoded - mFramesRendered <= RING_BUFFER_SIZE_FRAMES

\* C3: decoder 1 is played and decoder 2 enqueued behind it; with both
\* decoded before the graph is started, once the player has stopped the
\* graph Render has delivered every frame of decoder 1, then every frame of
\* decoder 2, in sequence and with nothing between the two.
C3_Gapless ==
    (/\ 2 \in hist.queued
     /\ hist.startedWith = decoder[1].len + decoder[2].len
     /\ ~isRunning)
    => /\ hist.delivered[1] = decoder[1].len
       /\ hist.delivered[2] = decoder[2].len
       /\ hist.lead[2] = [dec |-> 1, off |-> decoder[1].len]
       /\ ~hist.jump

\* C4: in a post-render pass a state receives min(mTotalFrames -
\* mFramesRendered, frames of the pass not yet distributed).
C4_ShareOfPass ==
    rt.pc = "didadd"
    => rt.give = Min(decoderState[rt.d].mTotalFrames
                        - decoderState[rt.d].mFramesRendered, rt.left)

\* C5: every decoder state of the table that is not ready for collection has
\* 0 <= mFramesRendered <= mTotalFrames.
C5_RenderedWithinTotal ==
    \A d \in Active :
        /\ 0 <= decoderState[d].mFramesRendered
        /\ decoderState[d].mFramesRendered <= decoderState[d].mTotalFrames

\* C6: between two render cycles, the mFramesRendered of the decoder states
\* of the table that are not ready for collection add up to the global
\* mFramesRendered.
C6_SumOfRendered ==
    rt.pc = "idle"
    => SumOver(Active, [d \in Decoders |-> decoderState[d].mFramesRendered])
          = mFramesRendered

\* C7: mNextDecoderStartingTimeStamp is the sum of the frames of the decoders
\* whose worker reached the end of stream in the current session (since the
\* last reset of the counters by Play(decoder) or Stop).
C7_NextTimeStamp == mNextDecoderStartingTimeStamp = hist.eosSum

\* C8: no two decoder states of the table have the same time stamp.
C8_DistinctTimeStamps ==
    \A i, j \in Slots :
        (i # j /\ mActiveDecoders[i] # NULL /\ mActiveDecoders[j] # NULL)
        => decoderState[mActiveDecoders[i]].mTimeStamp
              # decoderState[mActiveDecoders[j]].mTimeStamp

\* C9: a state receives frames of a pass only when no state of the table that
\* is not ready for collection and has a smaller time stamp still has frames
\* left to render.
C9_DecoderOrder ==
    (rt.pc = "didadd" /\ rt.give > 0)
    => \A e \in Active :
          decoderState[e].mTimeStamp < decoderState[rt.d].mTimeStamp
          => decoderState[e].mTotalFrames - decoderState[e].mFramesRendered <= 0

\* C10: when the worker has processed a successful seek (and the client has
\* not stopped the player meanwhile), the state's mFramesRendered is the frame
\* landed on and the global mFramesRendered equals mFramesDecoded.
C10_AfterSeek ==
    [][\A d \in Decoders :
          (/\ worker[d].pc = "seeksnap"
           /\ worker'[d].pc = "decode"
           /\ Todo("stop"))
          => /\ decoderState'[d].mFramesRendered = worker[d].newFrame
             /\ mFramesRendered' = mFramesDecoded']_vars

\* SpecSeek: one decoder of two chunks is played and sought in, by frame and
\* by time, the read and the swap of SeekToFrame being separate steps; the
\* decoder may refuse to seek, and its SeekToFrame fails with -1 or with -2
SeekMillis == {-50, 10, 50}
SeekFailures == {-1, -2}

InitSeek ==
    /\ InitPlayer(0)
    /\ \E seekable \in BOOLEAN, failure \in SeekFailures :
          decoder = [d \in Decoders |->
                        [NewDecoder(2 * Chunk, 2 * Chunk, seekable)
                            EXCEPT !.failure = failure]]
    /\ \E todo \in {<<"play", "seek", "seek">>,
                   <<"play", "seek", "forward">>,
                   <<"play", "seek", "backward">>,
                   <<"seek", "play", "time">>} : client = Client(todo)

NextSeek ==
    \/ WorkerStart
    \/ \E d \in Decoders :
          \/ WorkerFor(d)
          \/ WorkerDecode(d)
          \/ WorkerWait(d)
    \/ SeekStep
    \/ PlayDecoder
    \/ \E f \in SeekTargets : SeekToFrameRead(f)
    \/ SeekToFrameSwap
    \/ \E ms \in SeekMillis :
          \/ SeekForward(ms)
          \/ SeekBackward(ms)
          \/ SeekToTime(ms)

SpecSeek == InitSeek /\ [][NextSeek]_vars

\* SpecShutdown: one decoder is played, two more are enqueued, the graph is
\* started and the player is deleted
InitShutdown ==
    /\ \E lastPass \in UninitialisedLastPass : InitPlayer(lastPass)
    /\ decoder = [d \in Decoders |-> NewDecoder(Chunk, Chunk, TRUE)]
    /\ client = Client(<<"play", "enqueue", "enqueue", "resume", "delete">>)

NextShutdown ==
    \/ WorkerStep
    \/ RenderStep({Chunk})
    \/ CollectorStep
    \/ PlayDecoder
    \/ Enqueue
    \/ Play
    \/ Destructor

SpecShutdown == InitShutdown /\ [][NextShutdown]_vars

\* SpecStore: one decoder of two chunks is played and rendered, and the ring
\* buffer's Store may return an error for a chunk
InitStore ==
    /\ InitPlayer(0)
    /\ decoder = [d \in Decoders |-> NewDecoder(2 * Chunk, 2 * Chunk, TRUE)]
    /\ client = Client(<<"play", "resume">>)

NextStore ==
    \/ WorkerStart
    \/ \E d \in Decoders :
          \/ WorkerFor(d)
          \/ WorkerDecode(d)
          \/ WorkerDecodeStoreError(d)
          \/ WorkerWait(d)
    \/ RenderStep({Chunk})
    \/ PlayDecoder
    \/ Play

SpecStore == InitStore /\ [][NextStore]_vars

\* SpecRender: one decoder as long as the ring buffer is played and rendered,
\* the host asking for 512 or 2048 frames per cycle
RenderSizes == {512, 2048}

InitRender ==
    /\ InitPlayer(0)
    /\ decoder = [d \in Decoders |->
                     NewDecoder(RING_BUFFER_SIZE_FRAMES, RING_BUFFER_SIZE_FRAMES, TRUE)]
    /\ client = Client(<<"play", "resume">>)

NextRender ==
    \/ WorkerStart
    \/ \E d \in Decoders :
          \/ WorkerFor(d)
          \/ WorkerDecode(d)
          \/ WorkerWait(d)
    \/ RenderStep(RenderSizes)
    \/ PlayDecoder
    \/ Play

SpecRender == InitRender /\ [][NextRender]_vars

\* SpecClear: one decoder is played, another is enqueued and the queue is
\* cleared, before or after the graph is started
InitClear ==
    /\ \E lastPass \in UninitialisedLastPass : InitPlayer(lastPass)
    /\ decoder = [d \in Decoders |-> NewDecoder(Chunk, Chunk, TRUE)]
    /\ \E todo \in {<<"play", "enqueue", "clear", "resume">>,
                   <<"play", "resume", "enqueue", "clear">>} : client = Client(todo)

NextClear ==
    \/ WorkerStep
    \/ RenderStep({Chunk})
    \/ CollectorStep
    \/ PlayDecoder
    \/ Enqueue
    \/ Play
    \/ ClearQueuedDecoders

SpecClear == InitClear /\ [][NextClear]_vars

\* C11: rendering-finished fires at most once for a decoder, and the post-render
\* step that brings a state's mFramesRendered up to its mTotalFrames fires it
\* and marks the state ready for collection.
C11_RenderingFinishedOnce ==
    [][\A d \in Decoders :
          /\ hist'.renderingFinished[d] <= 1
          /\ (/\ rt.pc = "didadd" /\ rt'.pc # "didadd" /\ rt.d = d
              /\ decoderState'[d].mFramesRendered >= decoderState'[d].mTotalFrames)
             => /\ hist'.renderingFinished[d] = 1
                /\ decoderState'[d].mReadyForCollection]_vars

\* C12: rendering-started fires at most once for a decoder, also when a seek
\* has set the state's mFramesRendered back to 0.
C12_RenderingStartedOnce ==
    \A d \in Decoders : hist.renderingStarted[d] <= 1

\* C13: decoding-started and decoding-finished each fire at most once for a
\* decoder, also when a seek lands on frame 0.
C13_DecodingCallbacksOnce ==
    \A d \in Decoders : /\ hist.decodingStarted[d] <= 1
                        /\ hist.decodingFinished[d] <= 1

\* C14: once Stop() has stopped the player (and until the client plays
\* again) the graph is stopped and the three counters are 0: no worker changes
\* a counter after the reset.
C14_StoppedStaysReset ==
    hist.stopped => /\ ~isRunning
                    /\ mFramesDecoded = 0
                    /\ mFramesRendered = 0
                    /\ mNextDecoderStartingTimeStamp = 0

\* C15: when Stop() returns, whether the graph was running or not, every
\* decoder state of the table has mKeepDecoding false and mReadyForCollection
\* true and the three counters are 0.
C15_StopInAnyState ==
    [][(Todo("stop") /\ client'.todo = Tail(client.todo))
          => /\ \A i \in Slots :
                   mActiveDecoders'[i] # NULL
                   => /\ ~decoderState'[mActiveDecoders'[i]].mKeepDecoding
                      /\ decoderState'[mActiveDecoders'[i]].mReadyForCollection
             /\ mFramesDecoded' = 0
             /\ mFramesRendered' = 0
             /\ mNextDecoderStartingTimeStamp' = 0]_vars

\* C16: the post-render accounting that follows a Render pass that found no
\* frame to read (and wrote silence) gives no frame to any decoder state.
C16_SilentPassGivesNothing ==
    (rt.pc = "didadd" /\ rt.n = 0) => rt.give = 0

\* C17: Enqueue of a decoder whose format differs from the graph's, while a
\* decoder is active, returns false and changes neither the queue nor the
\* decoder states, the table or the counters.
C17_MismatchRejected ==
    [][(/\ Todo("enqueue") /\ client'.todo = Tail(client.todo)
        /\ GetCurrentDecoderState # NULL
        /\ decoder[client.next].format # graphFormat)
       => /\ hist'.returned[client.next] = "false"
          /\ mDecoderQueue' = mDecoderQueue
          /\ decoderState' = decoderState
          /\ mActiveDecoders' = mActiveDecoders
          /\ mFramesDecoded' = mFramesDecoded
          /\ mFramesRendered' = mFramesRendered
          /\ mNextDecoderStartingTimeStamp' = mNextDecoderStartingTimeStamp]_vars

\* a decoder was refused for its format while another one was active
C17_Witness ==
    \E d \in Decoders :
        /\ hist.returned[d] = "false"
        /\ decoder[d].format # graphFormat
        /\ GetCurrentDecoderState # NULL
        /\ \A i \in 1..Len(mDecoderQueue) : mDecoderQueue[i] # d

\* C18: a decoder for which Play or Enqueue returned false is not held by the
\* player (it is not in the queue and no worker took it); one for which they
\* returned true is in the queue or was taken by a worker.
C18_OwnershipOnFailure ==
    \A d \in Decoders :
        /\ hist.returned[d] = "false"
           => /\ \A i \in 1..Len(mDecoderQueue) : mDecoderQueue[i] # d
              /\ worker[d].pc = "none"
        /\ hist.returned[d] = "true"
           => \/ \E i \in 1..Len(mDecoderQueue) : mDecoderQueue[i] = d
              \/ worker[d].pc # "none"

C20_PlayedStartsAtZero ==
    \A d \in Decoders :
        (/\ decoderState[d].life = "live"
         /\ hist.returned[d] = "true"
         /\ d \notin hist.queued)
        => decoderState[d].mTimeStamp = 0

\* C21: SeekToFrame returns false and changes no decoder state when there is
\* no current decoder state or its decoder cannot seek; otherwise it sets the
\* current state's mFrameToSeek to the frame and returns true.
C21_SeekToFrameContract ==
    [][(/\ client.todo # <<>> /\ Head(client.todo) = "seek"
        /\ client'.todo = Tail(client.todo))
       => LET cur == IF client.pc = "seekcas" THEN client.cur
                     ELSE GetCurrentDecoderState
          IN IF cur = NULL \/ ~decoder[cur].seekable
             THEN /\ hist'.seek.result = "false"
                  /\ decoderState' = decoderState
             ELSE /\ hist'.seek.result = "true"
                  /\ decoderState'[cur].mFrameToSeek = hist'.seek.arg]_vars

\* C22: the frame SeekForward, SeekBackward and SeekToTime pass to
\* SeekToFrame lies in [0, totalFrames] of the current decoder state.
C22_SeekTargetClamped ==
    hist.seek.via \in {"forward", "backward", "time"}
    => (0 <= hist.seek.arg /\ hist.seek.arg <= hist.seek.total)

\* C27: a frame SeekToFrame wrote and returned true for stays in mFrameToSeek
\* until the worker hands it to the decoder, while the worker is in its loop.
C27_SeekRequestKept ==
    \A d \in Decoders :
        (/\ hist.request[d] # -1
         /\ decoderState[d].life = "live"
         /\ decoderState[d].mKeepDecoding
         /\ Running(d))
        => decoderState[d].mFrameToSeek = hist.request[d]

\* C29: when the decoder's seek returned a negative frame, the worker's steps
\* of that seek set mFrameToSeek to -1, go on to decode, and leave the state's
\* mFramesRendered and the global mFramesDecoded and mFramesRendered as they
\* were.
C29_FailedSeekChangesNothing ==
    [][\A d \in Decoders :
          (/\ worker[d].pc \in {"seekcas", "seekfr", "seekdec", "seeksnap"}
           /\ worker[d].newFrame < 0
           /\ worker'[d] # worker[d])
          => /\ worker[d].pc = "seekcas"
             /\ worker'[d].pc = "decode"
             /\ decoderState'[d].mFrameToSeek = -1
             /\ decoderState'[d].mFramesRendered = decoderState[d].mFramesRendered
             /\ mFramesDecoded' = mFramesDecoded
             /\ mFramesRendered' = mFramesRendered]_vars

\* C23: GetCurrentDecoderState returns a state of the table that is not ready
\* for collection and whose time stamp no other such state undercuts, and
\* NULL exactly when the table holds no such state; GetCurrentFrame and
\* GetTotalFrames return -1 exactly then.
C23_CurrentIsEarliest ==
    LET live == {d \in Decoders : /\ \E i \in Slots : mActiveDecoders[i] = d
                                  /\ ~decoderState[d].mReadyForCollection}
        cur  == GetCurrentDecoderState
    IN /\ (cur = NULL) <=> (live = {})
       /\ cur # NULL
          => /\ cur \in live
             /\ \A e \in live : decoderState[cur].mTimeStamp <= decoderState[e].mTimeStamp
       /\ (GetCurrentFrame = -1) <=> (live = {})
       /\ (GetTotalFrames = -1) <=> (live = {})

\* two states are in the table, neither ready for collection, and the one in
\* the later slot has the smaller time stamp and is the current one
C23_Witness ==
    /\ ActiveDecoderArraySize >= 2
    /\ \E i, j \in Slots :
          /\ i < j
          /\ mActiveDecoders[i] # NULL /\ mActiveDecoders[j] # NULL
          /\ ~decoderState[mActiveDecoders[i]].mReadyForCollection
          /\ ~decoderState[mActiveDecoders[j]].mReadyForCollection
          /\ decoderState[mActiveDecoders[j]].mTimeStamp
                < decoderState[mActiveDecoders[i]].mTimeStamp
          /\ GetCurrentDecoderState = mActiveDecoders[j]

\* C24: the collector frees no decoder state whose worker is still in its
\* decode loop, and no thread uses a state that was freed.
C24_FreedOnlyAfterWorker ==
    /\ ~hist.useAfterFree
    /\ \A d \in Decoders : decoderState[d].life = "freed" => ~Running(d)

\* C25: at most one worker at a time is inside the loop that fills the ring
\* buffer and advances mFramesDecoded.
C25_OneProducer ==
    \A d1, d2 \in Decoders :
        (/\ worker[d1].pc \in {"for", "decode", "seekcas", "seekfr", "seekdec", "seeksnap"}
         /\ worker[d2].pc \in {"for", "decode", "seekcas", "seekfr", "seekdec", "seeksnap"})
        => d1 = d2

C28_FailedStoreNotCounted ==
    [][hist'.storeErrors # hist.storeErrors => mFramesDecoded' = mFramesDecoded]_vars

C31_RealtimeNeverBlocks ==
    [][rt' # rt =>
          /\ mDecoderQueue' = mDecoderQueue
          /\ hist'.realtime \subseteq {"semaphore_signal", "OSAtomicAdd64Barrier"}]_vars

\* DidRender has stopped playback (the client never calls Stop) while a
\* decoder waits in the queue
C31_Witness ==
    /\ hist.stopped
    /\ mDecoderQueue # <<>>
    /\ hist.realtime = {"semaphore_signal", "OSAtomicAdd64Barrier"}

\* C32: a worker that has taken a decoder puts its decoder state in an empty
\* slot of mActiveDecoders, stamped with mNextDecoderStartingTimeStamp, before
\* it decodes: the step that takes it into its decoding loop fills a slot that
\* was NULL with the state, so no worker decodes for a state the table lacks.
C32_RegisteredBeforeDecoding ==
    [][\A d \in Decoders :
          worker[d].pc \in {"none", "popped"} /\ worker'[d].pc = "for" =>
             /\ \E i \in Slots : mActiveDecoders[i] = NULL /\ mActiveDecoders'[i] = d
             /\ decoderState'[d].mTimeStamp = mNextDecoderStartingTimeStamp]_vars

\* SpecCollector: SpecStop with the collector thread scheduled fairly.  Its
\* loop (lines 1804-1823) visits every slot in each sweep and waits on its
\* semaphore for two seconds at most between two sweeps, so a slot that stays
\* collectable is collected.
SpecCollector == InitStop /\ [][NextStop]_vars /\ \A i \in Slots : WF_vars(Collect(i))

\* C33: with mKeepCollecting true and the collector running, every decoder
\* state of the table whose mReadyForCollection has become true is in the end
\* taken out of its slot and deleted; no signal of the semaphore is needed.
C33_ReadyIsCollected ==
    \A d \in Decoders :
        (/\ decoderState[d].life = "live"
         /\ decoderState[d].mReadyForCollection
         /\ \E i \in Slots : mActiveDecoders[i] = d)
        ~> \/ /\ decoderState[d].life = "freed"
              /\ \A i \in Slots : mActiveDecoders[i] # d
           \/ ~mKeepCollecting
           \/ fault

\* a state that Stop or DidRender marked has been collected while its worker
\* had already returned
C33_Witness ==
    \E d \in Decoders :
        /\ decoderState[d].life = "freed"
        /\ decoderState[d].mReadyForCollection
        /\ \A i \in Slots : mActiveDecoders[i] = NULL
        /\ worker[d].pc = "done"
        /\ mKeepCollecting
        /\ ~fault

\* C34: once the destructor has ended the collector (mKeepCollecting is false)
\* and released the table and the queue, the table and the queue are empty and
\* every worker thread has exited: none is running and none is yet to start.
C34_WorkersExitedAtShutdown ==
    ~mKeepCollecting =>
        /\ \A i \in Slots : mActiveDecoders[i] = NULL
        /\ mDecoderQueue = <<>>
        /\ pendingWorkers = 0
        /\ \A d \in Decoders : ~Running(d)

\* C35: no more worker threads are waiting to start than there are decoders in
\* the queue, so every worker finds a decoder at the head of the queue: none
\* calls front() on an empty queue.
C35_WorkerFindsDecoder ==
    /\ pendingWorkers <= Len(mDecoderQueue)
    /\ ~hist.emptyPop

\* C36: a decoder Enqueue accepted and put in the queue is taken from it by a
\* worker.  Stated on the states where that can no longer happen: when the
\* client has made its last call and no worker thread is running or waiting
\* to start, no accepted decoder is still in the queue.
C36_EnqueuedIsTaken ==
    (/\ client.todo = <<>>
     /\ pendingWorkers = 0
     /\ \A d \in Decoders : ~Running(d))
    => \A d \in hist.queued :
          hist.returned[d] = "true" => d \notin Elements(mDecoderQueue)

\* C37: a seek request SeekToFrame accepted is processed, that is, the state's
\* mFrameToSeek returns to -1.  Stated on the states where that can no longer
\* happen: with no Stop so far, a decoder state whose worker has returned
\* holds no seek request.
C37_AcceptedSeekIsProcessed ==
    \A d \in Decoders :
        (/\ worker[d].pc = "done"
         /\ decoderState[d].life = "live"
         /\ ~hist.stopped)
        => decoderState[d].mFrameToSeek = -1

\* C38: DidRender stops playback and zeroes the counters only when no decoder
\* remains to be played: at that step the queue is empty and no worker thread
\* is yet to take its decoder or to put its state in the table.
C38_StopOnlyWhenNothingLeft ==
    [][(rt.pc = "end" /\ hist'.session # hist.session) =>
          /\ mDecoderQueue = <<>>
          /\ pendingWorkers = 0
          /\ \A d \in Decoders : worker[d].pc # "popped"]_vars

\* C39: when a worker stores a chunk, the index it stores at, the decoder's
\* current frame plus the state's mTimeStamp, is the value mFramesDecoded has
\* just before the chunk is added to it.
C39_StoreAtFramesDecoded ==
    [][\A d \in Decoders :
          (worker[d].pc = "decode" /\ decoder'[d].cur # decoder[d].cur)
          => decoder[d].cur + decoderState[d].mTimeStamp = mFramesDecoded]_vars

\* C40: ClearQueuedDecoders takes every decoder out of the queue and deletes
\* it, and leaves the table of active decoders, every decoder state and the
\* counters mFramesDecoded, mFramesRendered and mNextDecoderStartingTimeStamp
\* as they were.
C40_ClearOnlyTheQueue ==
    [][(Todo("clear") /\ client' # client) =>
          /\ mDecoderQueue' = <<>>
          /\ hist'.deleted = hist.deleted \cup Elements(mDecoderQueue)
          /\ UNCHANGED <<mActiveDecoders, decoderState, mFramesDecoded,
                         mFramesRendered, mNextDecoderStartingTimeStamp>>]_vars

\* the queue was cleared of a decoder while another was active with frames
\* in the ring buffer
C40_Witness ==
    /\ hist.deleted # {}
    /\ mDecoderQueue = <<>>
    /\ "clear" \notin Elements(client.todo)
    /\ \E i \in Slots : /\ mActiveDecoders[i] # NULL
                        /\ ~decoderState[mActiveDecoders[i]].mReadyForCollection
    /\ mFramesDecoded > 0

====
